---- MODULE Spec2Model ----
(***************************************************************************)
(* A model of riak/riak_object.py (class RiakObject).                      *)
(*                                                                         *)
(* Python objects live in a heap: `objs` maps an object id to the          *)
(* RiakObject's __dict__, and the mutable containers a RiakObject refers   *)
(* to (siblings list, links list, indexes set, usermeta dict) live in      *)
(* heaps of their own, so that two records holding the same list (after    *)
(* `self.__dict__ = result.__dict__.copy()` or `obj.siblings =             *)
(* self.siblings`) hold the same cell id.  The transport (client.put,      *)
(* client.put_new, client.get, client.delete) and the bucket's codec       *)
(* registry are collaborators: their answers are inputs of the actions.    *)
(***************************************************************************)
EXTENDS Integers, Sequences, FiniteSets, TLC

\* Bounds of the model.
MaxObjs == 3          \* records the caller can hold at once
MaxSibs == 2          \* version tags in a conflict reported by the transport
MaxCalls == 4         \* calls the caller makes in SpecSiblings
MaxAllCalls == 3      \* calls the caller makes in SpecAll
MaxLinks == 2         \* links a record holds before add_link is called

\* Room for the records the caller holds and for those one more get_sibling or
\* two would construct and fetch.
ObjIds == 1..(MaxObjs + 3)
CellIds == ObjIds

VARIABLES
    objs,     \* object id -> the RiakObject's __dict__
    sibs,     \* cell id -> a siblings list (entries: vtag or RiakObject)
    lnks,     \* cell id -> a links list
    idxs,     \* cell id -> an indexes set
    metas,    \* cell id -> a usermeta dict (as a set of pairs)
    role,     \* object id -> "free" | "app" (held by the caller) | "transport"
    last,     \* the last call: operation, record, transport response, outcome
    ncalls    \* calls made so far (counted in SpecSiblings only)

vars == <<objs, sibs, lnks, idxs, metas, role, last, ncalls>>

(***************************************************************************)
(* Python values.  None is the token "None"; decoded values and encoded    *)
(* bytes are tokens of two disjoint families ("int 0", "str a" / "b:...")  *)
(***************************************************************************)
None == "None"

DataInputs == {"int 0", "str a"}
\* u'\xe9': text that is not ASCII
NonAscii == "str e-acute"
TextInputs == {"str a", NonAscii}
EncInputs == {"b:0", "b:null"}
\* u'': the empty text
EmptyText == "str "
\* keys: None, the empty str, a str, text that is not ASCII and an int
KeyInputs == {None, "", "k1", NonAscii, "int 0"}
AssignedKey == "k1"
TheClient == "client"
TheBucket == "bucket"
JSON == "application/json"
MULTIPART == "multipart/mixed"

\* Python truth value (`not x`) of the values a field can hold.
Truthy(v) == v \notin {None, "", EmptyText, "int 0", "b:"}

\* The tokens of the three Python types of the values: int, unicode (text)
\* and str (bytes: keys, vclocks, encoded data).
IntTokens == {"int 0", "int -1", "int -2"}
TextTokens == {"str a", "str x", EmptyText, NonAscii}
StrTokens ==
    {"", "k1", "vc1", "vc2", "b:", "b:a", "b:x", "b:0", "b:-1", "b:-2",
     "b:null", "b:'a'", "b:'x'", "b:''", "b:'\\u00e9'",
     "b:\\x00\\x02", "b:\\x00\\x00\\x03"}

\* isinstance(value, basestring): a str or a unicode
IsBasestring(v) == v \in TextTokens \cup StrTokens

(***************************************************************************)
(* The bucket's codec registry (riak/bucket.py, not part of the source     *)
(* given): JSON has an encoder and a decoder, nothing else is registered.  *)
(***************************************************************************)
get_encoder(bucket, content_type) ==
    IF content_type = JSON THEN "json.dumps" ELSE None

get_decoder(bucket, content_type) ==
    IF content_type = JSON THEN "json.loads" ELSE None

\* json.dumps on the decoded values of the model; in a token of bytes a
\* single quote stands for the double quote of JSON
JsonDumps(v) ==
    CASE v = "int 0"   -> "b:0"
      [] v = "int -1"  -> "b:-1"
      [] v = "int -2"  -> "b:-2"
      [] v \in {"str a", "b:a"} -> "b:'a'"
      [] v \in {"str x", "b:x"} -> "b:'x'"
      [] v \in {EmptyText, "", "b:"} -> "b:''"
      [] v = NonAscii  -> "b:'\\u00e9'"
      [] v = None      -> "b:null"

\* json.loads: a value, None for JSON null, ValueError for malformed input,
\* TypeError for an argument that is neither str nor text
JsonLoads(b) ==
    CASE b \in IntTokens \cup {None} -> [err |-> "TypeError", val |-> None]
      [] b = "b:0"    -> [err |-> "ok", val |-> "int 0"]
      [] b = "b:-1"   -> [err |-> "ok", val |-> "int -1"]
      [] b = "b:-2"   -> [err |-> "ok", val |-> "int -2"]
      [] b = "b:'x'"  -> [err |-> "ok", val |-> "str x"]
      [] b = "b:'a'"  -> [err |-> "ok", val |-> "str a"]
      [] b = "b:''"   -> [err |-> "ok", val |-> EmptyText]
      [] b = "b:'\\u00e9'" -> [err |-> "ok", val |-> NonAscii]
      [] b = "b:null" -> [err |-> "ok", val |-> None]
      [] OTHER        -> [err |-> "ValueError", val |-> None]

\* value.encode() with the default encoding, ASCII: UnicodeError for text
\* that is not ASCII
StrEncode(v) ==
    CASE v \in StrTokens -> [err |-> "ok", val |-> v]
      [] v = "str a"   -> [err |-> "ok", val |-> "b:a"]
      [] v = "str x"   -> [err |-> "ok", val |-> "b:x"]
      [] v = EmptyText -> [err |-> "ok", val |-> "b:"]
      [] v = NonAscii  -> [err |-> "UnicodeError", val |-> None]

(***************************************************************************)
(* The heap.                                                               *)
(***************************************************************************)
Min(S) == CHOOSE x \in S : \A y \in S : x <= y

World == [objs |-> objs, sibs |-> sibs, lnks |-> lnks, idxs |-> idxs,
          metas |-> metas, role |-> role]

Live(w) == {p \in ObjIds : w.role[p] # "free"}

\* The id of a new object.
NextObj(w) == Min(ObjIds \ Live(w))

\* The cell a new container bound to field f of object o gets: one that no
\* other object refers to.
FreeCell(w, f, o) == Min(CellIds \ {w.objs[p][f] : p \in Live(w) \ {o}})

\* The __dict__ of an id that holds no object.
NoObject ==
    [client |-> None, bucket |-> None, key |-> None, data |-> None,
     enc |-> None, vclock |-> None, charset |-> None, content_type |-> None,
     content_encoding |-> None, usermeta |-> 0, indexes |-> 0, links |-> 0,
     siblings |-> 0, exists |-> FALSE, headers |-> "absent"]

\* A siblings entry: a version tag (vtag > 0) or a RiakObject (rec > 0).
Tag(t) == [vtag |-> t, rec |-> 0]
Rec(n) == [vtag |-> 0, rec |-> n]

\* Memory management at the return to the caller: a record the transport
\* built is referred to by nothing once its fields were copied, and a
\* container no live record refers to is gone.  Cell ids are addresses, which
\* mean nothing but "the same container or not": every container is moved to
\* the cell numbered like the first record that refers to it.
Collect(w) ==
    LET keep == {p \in ObjIds : w.role[p] = "app"}
        first(p, f) == Min({q \in keep : w.objs[q][f] = w.objs[p][f]})
        cell(heap, f, c, empty) ==
            IF c \in keep /\ first(c, f) = c THEN heap[w.objs[c][f]] ELSE empty
    IN  [objs  |-> [p \in ObjIds |->
                       IF p \in keep
                       THEN [w.objs[p] EXCEPT !.usermeta = first(p, "usermeta"),
                                              !.indexes = first(p, "indexes"),
                                              !.links = first(p, "links"),
                                              !.siblings = first(p, "siblings")]
                       ELSE NoObject],
         role  |-> [p \in ObjIds |-> IF p \in keep THEN "app" ELSE "free"],
         sibs  |-> [c \in CellIds |-> cell(w.sibs, "siblings", c, <<>>)],
         lnks  |-> [c \in CellIds |-> cell(w.lnks, "links", c, <<>>)],
         idxs  |-> [c \in CellIds |-> cell(w.idxs, "indexes", c, {})],
         metas |-> [c \in CellIds |-> cell(w.metas, "usermeta", c, {})]]

(***************************************************************************)
(* RiakObject.__init__                                                     *)
(***************************************************************************)
\* The exception __init__ raises for a key, "ok" when it raises none.
\* TypeError: the key is text that is not ASCII (lines 41-45), or is not None
\* and has no len() (line 47); ValueError: the key is empty (lines 47-49).
InitError(key) ==
    LET e == IF IsBasestring(key) THEN StrEncode(key)
             ELSE [err |-> "ok", val |-> key]
    IN  IF e.err # "ok" THEN "TypeError"
        ELSE IF e.val = None THEN "ok"
        ELSE IF e.val \in IntTokens THEN "TypeError"
        ELSE IF e.val \in {"", "b:"} THEN "ValueError"
        ELSE "ok"

\* The world after RiakObject(client, bucket, key) was constructed as object
\* n; `who` says who holds the new object.
NewRiakObject(w, n, who, client, bucket, key) ==
    LET m == FreeCell(w, "usermeta", n)
        x == FreeCell(w, "indexes", n)
        l == FreeCell(w, "links", n)
        s == FreeCell(w, "siblings", n)
    IN  [w EXCEPT
           !.role[n] = who,
           !.metas[m] = {},
           !.idxs[x] = {},
           !.lnks[l] = <<>>,
           !.sibs[s] = <<>>,
           !.objs[n] =
               [client |-> client, bucket |-> bucket,
                key |-> IF IsBasestring(key) THEN StrEncode(key).val ELSE key,
                data |-> None, enc |-> None, vclock |-> None,
                charset |-> None, content_type |-> JSON,
                content_encoding |-> None, usermeta |-> m, indexes |-> x,
                links |-> l, siblings |-> s, exists |-> FALSE,
                headers |-> "absent"]]

(***************************************************************************)
(* The value cell: data / encoded_data properties.                         *)
(***************************************************************************)
\* _serialize without the branch of lines 131-132.
_serialize_without_fallback(w, o, value) ==
    LET encoder == get_encoder(w.objs[o].bucket, w.objs[o].content_type)
    IN  IF encoder # None THEN [err |-> "ok", val |-> JsonDumps(value)]
        ELSE [err |-> "MissingCodec", val |-> None]

_serialize(w, o, value) ==
    LET encoder == get_encoder(w.objs[o].bucket, w.objs[o].content_type)
    IN  IF encoder # None THEN [err |-> "ok", val |-> JsonDumps(value)]
        ELSE IF IsBasestring(value) THEN StrEncode(value)
        ELSE [err |-> "MissingCodec", val |-> None]

_deserialize(w, o, value) ==
    LET decoder == get_decoder(w.objs[o].bucket, w.objs[o].content_type)
    IN  IF decoder # None THEN JsonLoads(value)
        ELSE [err |-> "MissingCodec", val |-> None]

\* _get_data without line 84: the encoded bytes stay after decoding.
_get_data_keeping_encoded(w, o) ==
    LET d == _deserialize(w, o, w.objs[o].enc)
    IN  IF w.objs[o].enc # None /\ w.objs[o].data = None
        THEN IF d.err # "ok"
             THEN [w |-> w, err |-> d.err, ret |-> None]
             ELSE [w |-> [w EXCEPT !.objs[o].data = d.val],
                   err |-> "ok", ret |-> d.val]
        ELSE [w |-> w, err |-> "ok", ret |-> w.objs[o].data]

_get_data(w, o) ==
    LET d == _deserialize(w, o, w.objs[o].enc)
    IN  IF w.objs[o].enc # None /\ w.objs[o].data = None
        THEN IF d.err # "ok"
             THEN [w |-> w, err |-> d.err, ret |-> None]
             ELSE [w |-> [w EXCEPT !.objs[o].data = d.val, !.objs[o].enc = None],
                   err |-> "ok", ret |-> d.val]
        ELSE [w |-> w, err |-> "ok", ret |-> w.objs[o].data]

_set_data(w, o, value) ==
    [w EXCEPT !.objs[o].enc = None, !.objs[o].data = value]

_get_encoded_data(w, o) ==
    LET e == _serialize(w, o, w.objs[o].data)
    IN  IF w.objs[o].data # None /\ w.objs[o].enc = None
        THEN IF e.err # "ok"
             THEN [w |-> w, err |-> e.err, ret |-> None]
             ELSE [w |-> [w EXCEPT !.objs[o].enc = e.val, !.objs[o].data = None],
                   err |-> "ok", ret |-> e.val]
        ELSE [w |-> w, err |-> "ok", ret |-> w.objs[o].enc]

\* _set_encoded_data without line 116: the decoded value stays.
_set_encoded_data_keeping_data(w, o, value) ==
    [w EXCEPT !.objs[o].enc = value]

_set_encoded_data(w, o, value) ==
    [w EXCEPT !.objs[o].data = None, !.objs[o].enc = value]

(***************************************************************************)
(* clear and _populate                                                     *)
(***************************************************************************)
\* clear that also forgets the vclock.
clear_resetting_vclock(w, o) ==
    LET l  == FreeCell(w, "links", o)
        s  == FreeCell(w, "siblings", o)
        w1 == [w EXCEPT !.objs[o].headers = "empty", !.objs[o].vclock = None,
                        !.objs[o].links = l, !.lnks[l] = <<>>]
        w2 == _set_data(w1, o, None)
    IN  [w2 EXCEPT !.objs[o].exists = FALSE,
                   !.objs[o].siblings = s, !.sibs[s] = <<>>]

clear(w, o) ==
    LET l  == FreeCell(w, "links", o)
        s  == FreeCell(w, "siblings", o)
        w1 == [w EXCEPT !.objs[o].headers = "empty",
                        !.objs[o].links = l, !.lnks[l] = <<>>]
        w2 == _set_data(w1, o, None)
    IN  [w2 EXCEPT !.objs[o].exists = FALSE,
                   !.objs[o].siblings = s, !.sibs[s] = <<>>]

(***************************************************************************)
(* A Python value a transport call returns: its type, the object id when   *)
(* it is a RiakObject, its length when it is a list.                       *)
(***************************************************************************)
PyNone == [type |-> "NoneType", id |-> 0, len |-> 0]
PySentinel == [type |-> "tuple", id |-> 0, len |-> 2]        \* ('', [])
PyList(n) == [type |-> "list", id |-> 0, len |-> n]          \* a list of vtags
PyObj(n) == [type |-> "RiakObject", id |-> n, len |-> 0]

\* bool(result)
PyTrue(result) ==
    \/ result.type = "RiakObject"
    \/ result.type = "tuple"
    \/ result.type = "list" /\ result.len > 0

\* result != ('', [])
NotSentinel(result) == result # PySentinel

\* _populate that keeps the record's own key.
_populate_keeping_key(w, o, result) ==
    IF result = PyNone \/ result = PyObj(o)
    THEN [w |-> w, err |-> "ok"]
    ELSE IF result.type = "RiakObject"
    THEN LET c == clear(w, o)
         IN  [w |-> [c EXCEPT !.objs[o] =
                        [c.objs[result.id] EXCEPT !.key = w.objs[o].key]],
              err |-> "ok"]
    ELSE [w |-> w, err |-> "UnrecognizedPopulateResult"]

\* _populate that takes a list of vtags as the record's siblings, as its
\* docstring says, instead of raising.
_populate_taking_vtags(w, o, result) ==
    IF result = PyNone \/ result = PyObj(o)
    THEN [w |-> w, err |-> "ok"]
    ELSE IF result.type = "RiakObject"
    THEN LET c == clear(w, o)
         IN  [w |-> [c EXCEPT !.objs[o] = c.objs[result.id]], err |-> "ok"]
    ELSE IF result.type = "list"
    THEN [w |-> [w EXCEPT !.sibs[w.objs[o].siblings] =
                              [i \in 1..result.len |-> Tag(i)]],
          err |-> "ok"]
    ELSE [w |-> w, err |-> "UnrecognizedPopulateResult"]

_populate(w, o, result) ==
    IF result = PyNone \/ result = PyObj(o)
    THEN [w |-> w, err |-> "ok"]
    ELSE IF result.type = "RiakObject"
    THEN LET c == clear(w, o)
         IN  [w |-> [c EXCEPT !.objs[o] = c.objs[result.id]], err |-> "ok"]
    ELSE [w |-> w, err |-> "UnrecognizedPopulateResult"]

(***************************************************************************)
(* The transport collaborator.  A response is what one call of            *)
(* client.put_new / client.put / client.get does: raise, or return None,   *)
(* the tuple ('', []), a list of vtags, the record it was passed, or a     *)
(* RiakObject it has built from the server's answer.                       *)
(***************************************************************************)
Templates == {"plain", "conflict"}

\* The server's answers the transport builds records from.
Template(t) ==
    CASE t = "plain" ->
           [vclock |-> "vc1", enc |-> "b:0", content_type |-> JSON,
            charset |-> None, content_encoding |-> None, nsibs |-> 0,
            links |-> <<>>, indexes |-> {}, usermeta |-> {}]
      [] OTHER ->
           [vclock |-> "vc2", enc |-> None, content_type |-> MULTIPART,
            charset |-> "utf-8", content_encoding |-> "gzip", nsibs |-> MaxSibs,
            links |-> << <<"bucket", "k2", "tag">> >>,
            indexes |-> {<<"f_bin", "str x">>},
            usermeta |-> {<<"a", "b">>}]

NoResp == [kind |-> "-", tmpl |-> "-"]

Resp(kinds) ==
    {[kind |-> k, tmpl |-> "-"] : k \in kinds}
        \cup {[kind |-> "record", tmpl |-> t] : t \in Templates}

PutResponses == Resp({"None", "sentinel", "self", "vtags", "raise"})
GetResponses == Resp({"None", "sentinel", "emptylist", "self", "vtags", "raise"})
\* The answers that lead to different records: not found, a record, a failure.
SiblingResponses == Resp({"None", "raise"})
DeleteResponses == {[kind |-> k, tmpl |-> "-"] : k \in {"None", "sentinel", "raise"}}

\* The world after the transport has built, as object n, the record it
\* answers a call about record o with.
TransportRecord(w, n, o, t) ==
    LET me == w.objs[o]
        w1 == NewRiakObject(w, n, "transport", me.client, me.bucket,
                            IF me.key = None THEN AssignedKey ELSE me.key)
        d  == w1.objs[n]
        tm == Template(t)
    IN  [w1 EXCEPT
           !.objs[n].vclock = tm.vclock,
           !.objs[n].enc = tm.enc,
           !.objs[n].content_type = tm.content_type,
           !.objs[n].charset = tm.charset,
           !.objs[n].content_encoding = tm.content_encoding,
           !.objs[n].exists = TRUE,
           !.sibs[d.siblings] = [i \in 1..tm.nsibs |-> Tag(i)],
           !.lnks[d.links] = tm.links,
           !.idxs[d.indexes] = tm.indexes,
           !.metas[d.usermeta] = tm.usermeta]

\* The world and the Python value after a transport call about record o
\* returned.
Materialize(w, o, resp) ==
    CASE resp.kind = "record" ->
           [w |-> TransportRecord(w, NextObj(w), o, resp.tmpl),
            val |-> PyObj(NextObj(w))]
      [] resp.kind = "self"      -> [w |-> w, val |-> PyObj(o)]
      [] resp.kind = "sentinel"  -> [w |-> w, val |-> PySentinel]
      [] resp.kind = "emptylist" -> [w |-> w, val |-> PyList(0)]
      [] resp.kind = "vtags"     -> [w |-> w, val |-> PyList(MaxSibs)]
      [] OTHER                   -> [w |-> w, val |-> PyNone]

\* One call of the transport as the caller's log sees it: the operation, the
\* record passed, the vtag asked for (0: none) and the record's fields then.
Call(w, op, o, vtag) == [op |-> op, obj |-> o, vtag |-> vtag, seen |-> w.objs[o]]

(***************************************************************************)
(* store, reload, delete, get_sibling                                      *)
(***************************************************************************)
\* The outcome of a call that made the transport calls `calls` and ended as
\* _populate did.
Populated(p, calls) == [w |-> p.w, err |-> p.err, calls |-> calls]

store(w, o, resp) ==
    LET me == w.objs[o]
        m  == Materialize(w, o, resp)
        p  == _populate(m.w, o, m.val)
    IN  IF /\ Len(w.sibs[me.siblings]) > 0
           /\ ~Truthy(me.data)
           /\ ~Truthy(me.enc)
           /\ ~Truthy(me.vclock)
        THEN [w |-> w, err |-> "UnresolvedConflictStore", calls |-> <<>>]
        ELSE IF me.key = None
        THEN IF resp.kind = "raise"
             THEN [w |-> w, err |-> "TransportError",
                   calls |-> <<Call(w, "put_new", o, 0)>>]
             ELSE Populated(p, <<Call(w, "put_new", o, 0)>>)
        ELSE IF resp.kind = "raise"
             THEN [w |-> w, err |-> "TransportError",
                   calls |-> <<Call(w, "put", o, 0)>>]
             ELSE IF m.val # PyNone /\ NotSentinel(m.val)
             THEN Populated(p, <<Call(w, "put", o, 0)>>)
             ELSE [w |-> m.w, err |-> "ok",
                   calls |-> <<Call(w, "put", o, 0)>>]

\* reload without the comparison with ('', []) of line 269.
reload_without_sentinel(w, o, vtag, resp) ==
    LET m == Materialize(w, o, resp)
        p == _populate(m.w, o, m.val)
    IN  IF resp.kind = "raise"
        THEN [w |-> w, err |-> "TransportError",
              calls |-> <<Call(w, "get", o, vtag)>>]
        ELSE IF PyTrue(m.val)
        THEN Populated(p, <<Call(w, "get", o, vtag)>>)
        ELSE [w |-> clear(m.w, o), err |-> "ok",
              calls |-> <<Call(w, "get", o, vtag)>>]

reload(w, o, vtag, resp) ==
    LET m == Materialize(w, o, resp)
        p == _populate(m.w, o, m.val)
    IN  IF resp.kind = "raise"
        THEN [w |-> w, err |-> "TransportError",
              calls |-> <<Call(w, "get", o, vtag)>>]
        ELSE IF PyTrue(m.val) /\ NotSentinel(m.val)
        THEN Populated(p, <<Call(w, "get", o, vtag)>>)
        ELSE [w |-> clear(m.w, o), err |-> "ok",
              calls |-> <<Call(w, "get", o, vtag)>>]

\* delete with lines 303 and 304 swapped: the record is cleared, then the
\* transport is called.
delete_clearing_first(w, o, resp) ==
    LET c == clear(w, o)
    IN  [w |-> c,
         err |-> IF resp.kind = "raise" THEN "TransportError" ELSE "ok",
         calls |-> <<Call(c, "delete", o, 0)>>]

delete(w, o, resp) ==
    IF resp.kind = "raise"
    THEN [w |-> w, err |-> "TransportError",
          calls |-> <<Call(w, "delete", o, 0)>>]
    ELSE [w |-> clear(w, o), err |-> "ok",
          calls |-> <<Call(w, "delete", o, 0)>>]

\* get_sibling without line 358: the resolved record is not stored in the list.
get_sibling_not_cached(w, o, idx, resp) ==
    LET me    == w.objs[o]
        entry == w.sibs[me.siblings][idx]
        n     == NextObj(w)
        r     == reload(NewRiakObject(w, n, "app", me.client, me.bucket, me.key),
                        n, entry.vtag, resp)
        list  == r.w.objs[o].siblings
    IN  IF idx > Len(w.sibs[me.siblings])
        THEN [w |-> w, err |-> "IndexError", ret |-> 0, calls |-> <<>>]
        ELSE IF entry.rec # 0
        THEN [w |-> w, err |-> "ok", ret |-> entry.rec, calls |-> <<>>]
        ELSE IF r.err # "ok"
        THEN [w |-> w, err |-> r.err, ret |-> 0, calls |-> r.calls]
        ELSE [w |-> [r.w EXCEPT !.objs[n].siblings = list],
              err |-> "ok", ret |-> n, calls |-> r.calls]

\* get_sibling without line 359: the resolved record keeps the siblings list
\* its reload gave it.
get_sibling_not_linked(w, o, idx, resp) ==
    LET me    == w.objs[o]
        entry == w.sibs[me.siblings][idx]
        n     == NextObj(w)
        r     == reload(NewRiakObject(w, n, "app", me.client, me.bucket, me.key),
                        n, entry.vtag, resp)
        list  == r.w.objs[o].siblings
    IN  IF idx > Len(w.sibs[me.siblings])
        THEN [w |-> w, err |-> "IndexError", ret |-> 0, calls |-> <<>>]
        ELSE IF entry.rec # 0
        THEN [w |-> w, err |-> "ok", ret |-> entry.rec, calls |-> <<>>]
        ELSE IF r.err # "ok"
        THEN [w |-> w, err |-> r.err, ret |-> 0, calls |-> r.calls]
        ELSE [w |-> [r.w EXCEPT !.sibs[list][idx] = Rec(n)],
              err |-> "ok", ret |-> n, calls |-> r.calls]

\* get_sibling with line 358 before line 354: the new record is stored in the
\* list before it is fetched.
get_sibling_storing_first(w, o, idx, resp) ==
    LET me    == w.objs[o]
        entry == w.sibs[me.siblings][idx]
        n     == NextObj(w)
        c     == NewRiakObject(w, n, "app", me.client, me.bucket, me.key)
        r     == reload(c, n, entry.vtag, resp)
        list  == r.w.objs[o].siblings
    IN  IF idx > Len(w.sibs[me.siblings])
        THEN [w |-> w, err |-> "IndexError", ret |-> 0, calls |-> <<>>]
        ELSE IF entry.rec # 0
        THEN [w |-> w, err |-> "ok", ret |-> entry.rec, calls |-> <<>>]
        ELSE IF r.err # "ok"
        THEN [w |-> [c EXCEPT !.sibs[me.siblings][idx] = Rec(n)],
              err |-> r.err, ret |-> 0, calls |-> r.calls]
        ELSE [w |-> [r.w EXCEPT !.sibs[list][idx] = Rec(n),
                           !.objs[n].siblings = list],
              err |-> "ok", ret |-> n, calls |-> r.calls]

\* get_sibling that puts the record it fetched in the place of every tag.
get_sibling_resolving_all(w, o, idx, resp) ==
    LET me    == w.objs[o]
        entry == w.sibs[me.siblings][idx]
        n     == NextObj(w)
        r     == reload(NewRiakObject(w, n, "app", me.client, me.bucket, me.key),
                        n, entry.vtag, resp)
        list  == r.w.objs[o].siblings
    IN  IF idx > Len(w.sibs[me.siblings])
        THEN [w |-> w, err |-> "IndexError", ret |-> 0, calls |-> <<>>]
        ELSE IF entry.rec # 0
        THEN [w |-> w, err |-> "ok", ret |-> entry.rec, calls |-> <<>>]
        ELSE IF r.err # "ok"
        THEN [w |-> w, err |-> r.err, ret |-> 0, calls |-> r.calls]
        ELSE [w |-> [r.w EXCEPT !.sibs[list] =
                               [j \in DOMAIN @ |->
                                   IF @[j].rec = 0 THEN Rec(n) ELSE @[j]],
                           !.objs[n].siblings = list],
              err |-> "ok", ret |-> n, calls |-> r.calls]

\* get_sibling(i) with Python's index i = idx - 1.
get_sibling(w, o, idx, resp) ==
    LET me    == w.objs[o]
        entry == w.sibs[me.siblings][idx]
        n     == NextObj(w)
        r     == reload(NewRiakObject(w, n, "app", me.client, me.bucket, me.key),
                        n, entry.vtag, resp)
        list  == r.w.objs[o].siblings
    IN  IF idx > Len(w.sibs[me.siblings])
        THEN [w |-> w, err |-> "IndexError", ret |-> 0, calls |-> <<>>]
        ELSE IF entry.rec # 0
        THEN [w |-> w, err |-> "ok", ret |-> entry.rec, calls |-> <<>>]
        ELSE IF r.err # "ok"
        THEN [w |-> w, err |-> r.err, ret |-> 0, calls |-> r.calls]
        ELSE [w |-> [r.w EXCEPT !.sibs[list][idx] = Rec(n),
                           !.objs[n].siblings = list],
              err |-> "ok", ret |-> n, calls |-> r.calls]

(***************************************************************************)
(* Indexes and links.                                                      *)
(***************************************************************************)
IndexValues == {"int 0", "str x"}
AddFields == {"f_bin", "g_int", "name"}
RemoveFields == {None, "f_bin"}
RemoveValues == {None} \cup IndexValues

\* field[-4:] of the field names of the model
Last4(field) ==
    CASE field = "f_bin" -> "_bin"
      [] field = "g_int" -> "_int"
      [] OTHER           -> field

\* add_index without the test of line 157.
add_index_unchecked(w, o, field, value) ==
    [w |-> [w EXCEPT !.idxs[w.objs[o].indexes] = @ \cup {<<field, value>>}],
     err |-> "ok"]

add_index(w, o, field, value) ==
    IF Last4(field) \notin {"_bin", "_int"}
    THEN [w |-> w, err |-> "InvalidIndexSuffix"]
    ELSE [w |-> [w EXCEPT !.idxs[w.objs[o].indexes] = @ \cup {<<field, value>>}],
          err |-> "ok"]

remove_index(w, o, field, value) ==
    LET c == w.objs[o].indexes
    IN  IF ~Truthy(field) /\ ~Truthy(value)
        THEN [w |-> [w EXCEPT !.idxs[c] = {}], err |-> "ok"]
        ELSE IF Truthy(field) /\ ~Truthy(value)
        THEN [w |-> [w EXCEPT !.idxs[c] = {x \in @ : x[1] # field}],
              err |-> "ok"]
        ELSE IF Truthy(field) /\ Truthy(value)
        THEN IF <<field, value>> \in w.idxs[c]
             THEN [w |-> [w EXCEPT !.idxs[c] = @ \ {<<field, value>>}],
                   err |-> "ok"]
             ELSE [w |-> w, err |-> "KeyError"]
        ELSE [w |-> w, err |-> "AmbiguousIndexRemoval"]

\* The argument of add_link: a 3 item tuple, or a RiakObject and a tag.
LinkTuple == [type |-> "tuple", id |-> 0, val |-> <<"bucket", "k2", "tag">>]
LinkTo(n) == [type |-> "RiakObject", id |-> n, val |-> <<>>]

\* bucket.name
BucketName(bucket) == bucket

add_link(w, o, obj, tag) ==
    LET newlink == IF obj.type = "tuple"
                   THEN obj.val
                   ELSE <<BucketName(w.objs[obj.id].bucket), w.objs[obj.id].key, tag>>
    IN  [w EXCEPT !.lnks[w.objs[o].links] = Append(@, newlink)]

(***************************************************************************)
(* __hash__, __eq__, __ne__                                                *)
(***************************************************************************)
\* Python's hash() of the values of the model, as a token of the hash value.
\* hash(-1) is -2, as hash(-2) is; hash of 0, of the empty str, of the empty
\* text and of the strs '\x00\x02' and '\x00\x00\x03' is 0; an ASCII text
\* hashes like the str of the same characters.  The hash of any other value
\* of the model is its own: no two of them collide.
PyHash(v) ==
    CASE v \in {"int -1", "int -2"}             -> "hash -2"
      [] v \in {"int 0", "", "b:", EmptyText,
                "b:\\x00\\x02", "b:\\x00\\x00\\x03"} -> "hash 0"
      [] v \in {"str a", "b:a"}                 -> "hash of 'a'"
      [] v \in {"str x", "b:x"}                 -> "hash of 'x'"
      [] OTHER                                  -> v

\* hash() of a tuple: a function of the hashes of its items, in order.
PyHashTuple(t) == [i \in DOMAIN t |-> PyHash(t[i])]

__hash__(w, o) ==
    PyHashTuple(<<w.objs[o].key, w.objs[o].bucket, w.objs[o].vclock>>)

__eq__(w, o, other) ==
    IF other.type = "RiakObject"
    THEN __hash__(w, o) = __hash__(w, other.id)
    ELSE FALSE

__ne__(w, o, other) ==
    IF other.type = "RiakObject"
    THEN __hash__(w, o) # __hash__(w, other.id)
    ELSE TRUE

(***************************************************************************)
(* The state machine.  The caller holds record 1 and every record          *)
(* get_sibling has returned, and calls their methods in any order; each    *)
(* step is one call, from entry to return.                                 *)
(***************************************************************************)
App == {o \in ObjIds : role[o] = "app"}

\* Room for the record get_sibling constructs.
HasRoom == Cardinality(App) < MaxObjs

EmptyWorld ==
    [objs |-> [n \in ObjIds |-> NoObject],
     sibs |-> [c \in CellIds |-> <<>>],
     lnks |-> [c \in CellIds |-> <<>>],
     idxs |-> [c \in CellIds |-> {}],
     metas |-> [c \in CellIds |-> {}],
     role |-> [n \in ObjIds |-> "free"]]

Setters == {"setData", "setEncodedData"}

\* The step to the world w a call leaves, and the log of the call: the
\* operation, the record, what the transport answered, the exception raised
\* ("ok": none), the setter the call directly follows on the record and the
\* field and value passed ("-": the call takes none).
CommitArgs(w, op, o, resp, err, field, value) ==
    \E c \in {Collect(w)} :
        /\ objs' = c.objs
        /\ sibs' = c.sibs
        /\ lnks' = c.lnks
        /\ idxs' = c.idxs
        /\ metas' = c.metas
        /\ role' = c.role
        /\ last' = [op |-> op, obj |-> o, resp |-> resp.kind, err |-> err,
                    after |-> IF last.obj = o /\ last.op \in Setters
                              THEN last.op ELSE "-",
                    field |-> field, value |-> value]

Commit(w, op, o, resp, err) == CommitArgs(w, op, o, resp, err, "-", "-")

\* What the transport answered in a call: nothing when the call returned or
\* raised before it asked the transport.
Answer(out, resp) == IF out.calls = <<>> THEN NoResp ELSE resp

Init ==
    \E key \in KeyInputs :
        /\ InitError(key) = "ok"
        /\ LET w == NewRiakObject(EmptyWorld, 1, "app", TheClient, TheBucket, key)
           IN  /\ objs = w.objs
               /\ sibs = w.sibs
               /\ lnks = w.lnks
               /\ idxs = w.idxs
               /\ metas = w.metas
               /\ role = w.role
        /\ last = [op |-> "__init__", obj |-> 1, resp |-> "-", err |-> "ok",
                   after |-> "-", field |-> "-", value |-> "-"]
        /\ ncalls = 0

SetData(o, v) == Commit(_set_data(World, o, v), "setData", o, NoResp, "ok")

SetEncodedData(o, b) ==
    Commit(_set_encoded_data(World, o, b), "setEncodedData", o, NoResp, "ok")

GetData(o) ==
    \E out \in {_get_data(World, o)} :
        Commit(out.w, "getData", o, NoResp, out.err)

GetEncodedData(o) ==
    \E out \in {_get_encoded_data(World, o)} :
        Commit(out.w, "getEncodedData", o, NoResp, out.err)

Clear(o) == Commit(clear(World, o), "clear", o, NoResp, "ok")

Store(o, resp) ==
    \E out \in {store(World, o, resp)} :
        Commit(out.w, "store", o, Answer(out, resp), out.err)

Reload(o, resp) ==
    \E out \in {reload(World, o, 0, resp)} :
        Commit(out.w, "reload", o, Answer(out, resp), out.err)

Delete(o, resp) ==
    \E out \in {delete(World, o, resp)} :
        Commit(out.w, "delete", o, Answer(out, resp), out.err)

GetSibling(o, idx, resp) ==
    /\ HasRoom
    /\ \E out \in {get_sibling(World, o, idx, resp)} :
          Commit(out.w, "getSibling", o, Answer(out, resp), out.err)

\* The caller keeps a reference to the records its transport returned.
Hold(w) ==
    [w EXCEPT !.role = [p \in ObjIds |->
                           IF w.role[p] = "transport" THEN "app" ELSE w.role[p]]]

AddIndex(o, field, value) ==
    \E out \in {add_index(World, o, field, value)} :
        CommitArgs(out.w, "addIndex", o, NoResp, out.err, field, value)

RemoveIndex(o, field, value) ==
    \E out \in {remove_index(World, o, field, value)} :
        CommitArgs(out.w, "removeIndex", o, NoResp, out.err, field, value)

AddLink(o, obj) ==
    /\ Len(lnks[objs[o].links]) < MaxLinks
    /\ Commit(add_link(World, o, obj, None), "addLink", o, NoResp, "ok")

\* store() and reload() answered with a record the caller still holds
\* afterwards.
StoreHeld(o, resp) ==
    /\ HasRoom
    /\ \E out \in {store(World, o, resp)} :
          Commit(Hold(out.w), "store", o, Answer(out, resp), out.err)

ReloadHeld(o, resp) ==
    /\ HasRoom
    /\ \E out \in {reload(World, o, 0, resp)} :
          Commit(Hold(out.w), "reload", o, Answer(out, resp), out.err)

Uncounted == UNCHANGED ncalls
Counted == ncalls < MaxCalls /\ ncalls' = ncalls + 1
CountedAll == ncalls < MaxAllCalls /\ ncalls' = ncalls + 1

\* One record and all its operations, in any number.
Next ==
    \/ \E v \in DataInputs \cup TextInputs : SetData(1, v) /\ Uncounted
    \/ \E b \in EncInputs : SetEncodedData(1, b) /\ Uncounted
    \/ GetData(1) /\ Uncounted
    \/ GetEncodedData(1) /\ Uncounted
    \/ Clear(1) /\ Uncounted
    \/ \E resp \in PutResponses : Store(1, resp) /\ Uncounted
    \/ \E resp \in GetResponses : Reload(1, resp) /\ Uncounted
    \/ \E resp \in DeleteResponses : Delete(1, resp) /\ Uncounted

Spec == Init /\ [][Next]_vars

\* A record, the siblings resolved from it, and the operations that change
\* which siblings list a record holds: at most MaxCalls calls.
NextSiblings ==
    \/ \E o \in ObjIds, v \in DataInputs : o \in App /\ Counted /\ SetData(o, v)
    \/ \E o \in ObjIds : o \in App /\ Counted /\ Clear(o)
    \/ \E o \in ObjIds, resp \in SiblingResponses :
          o \in App /\ Counted /\ Store(o, resp)
    \/ \E o \in ObjIds, resp \in SiblingResponses :
          o \in App /\ Counted /\ Reload(o, resp)
    \/ \E o \in ObjIds, idx \in 1..MaxSibs, resp \in SiblingResponses :
          o \in App /\ Counted /\ GetSibling(o, idx, resp)

SpecSiblings == Init /\ [][NextSiblings]_vars

RecordResponses == {[kind |-> "record", tmpl |-> t] : t \in Templates}

\* Every record the caller holds and all operations, the records of the
\* transport included: at most MaxAllCalls calls.
NextAll ==
    \/ \E o \in ObjIds, v \in DataInputs : o \in App /\ CountedAll /\ SetData(o, v)
    \/ \E o \in ObjIds, b \in EncInputs :
          o \in App /\ CountedAll /\ SetEncodedData(o, b)
    \/ \E o \in ObjIds : o \in App /\ CountedAll /\ GetData(o)
    \/ \E o \in ObjIds : o \in App /\ CountedAll /\ GetEncodedData(o)
    \/ \E o \in ObjIds, f \in AddFields, v \in IndexValues :
          o \in App /\ CountedAll /\ AddIndex(o, f, v)
    \/ \E o \in ObjIds, f \in RemoveFields, v \in RemoveValues :
          o \in App /\ CountedAll /\ RemoveIndex(o, f, v)
    \/ \E o \in ObjIds, kind \in {"tuple", "RiakObject"} :
          o \in App /\ CountedAll
             /\ AddLink(o, IF kind = "tuple" THEN LinkTuple ELSE LinkTo(o))
    \/ \E o \in ObjIds : o \in App /\ CountedAll /\ Clear(o)
    \/ \E o \in ObjIds, resp \in PutResponses :
          o \in App /\ CountedAll /\ Store(o, resp)
    \/ \E o \in ObjIds, resp \in RecordResponses :
          o \in App /\ CountedAll /\ StoreHeld(o, resp)
    \/ \E o \in ObjIds, resp \in GetResponses :
          o \in App /\ CountedAll /\ Reload(o, resp)
    \/ \E o \in ObjIds, resp \in RecordResponses :
          o \in App /\ CountedAll /\ ReloadHeld(o, resp)
    \/ \E o \in ObjIds, resp \in DeleteResponses :
          o \in App /\ CountedAll /\ Delete(o, resp)
    \/ \E o \in ObjIds, idx \in 1..MaxSibs, resp \in SiblingResponses :
          o \in App /\ CountedAll /\ GetSibling(o, idx, resp)

SpecAll == Init /\ [][NextAll]_vars

\* vclocks: None, strs (opaque bytes, as a transport hands over) and ints;
\* the attribute takes any value
VclockInputs ==
    {None, "vc1", "vc2", "b:\\x00\\x02", "b:\\x00\\x00\\x03", "",
     "int 0", "int -1", "int -2"}
BucketInputs == {TheBucket, "bucket2"}

\* Two records, constructed with any keys and buckets.
InitTwo ==
    \E k1 \in KeyInputs, k2 \in KeyInputs, b2 \in BucketInputs :
        /\ InitError(k1) = "ok"
        /\ InitError(k2) = "ok"
        /\ LET w1 == NewRiakObject(EmptyWorld, 1, "app", TheClient, TheBucket, k1)
               w  == NewRiakObject(w1, 2, "app", TheClient, b2, k2)
           IN  /\ objs = w.objs
               /\ sibs = w.sibs
               /\ lnks = w.lnks
               /\ idxs = w.idxs
               /\ metas = w.metas
               /\ role = w.role
        /\ last = [op |-> "__init__", obj |-> 2, resp |-> "-", err |-> "ok",
                   after |-> "-", field |-> "-", value |-> "-"]
        /\ ncalls = 0

\* record.vclock = v: a plain attribute, which the transport that builds or
\* updates a record, or the caller, assigns; nothing validates the value.
SetVclock(o, v) ==
    Commit([World EXCEPT !.objs[o].vclock = v], "setVclock", o, NoResp, "ok")

NextTwo ==
    \/ \E o \in {1, 2}, v \in VclockInputs : SetVclock(o, v) /\ Uncounted
    \/ \E o \in {1, 2}, resp \in RecordResponses : Reload(o, resp) /\ Uncounted

SpecTwo == InitTwo /\ [][NextTwo]_vars

(***************************************************************************)
(* Properties.  A property of an operation is stated of the operator that  *)
(* models it, applied in every reachable state to every input.             *)
(***************************************************************************)
\* exists=false, data and encoded data unset, links and siblings empty
Cleared(w, o) ==
    /\ ~w.objs[o].exists
    /\ w.objs[o].data = None
    /\ w.objs[o].enc = None
    /\ w.lnks[w.objs[o].links] = <<>>
    /\ w.sibs[w.objs[o].siblings] = <<>>

Siblings(o) == sibs[objs[o].siblings]

NotFound == {"None", "sentinel", "emptylist"}

\* C1: store() raises UnresolvedConflictStore exactly when siblings is
\* non-empty and none of data, encoded data and vclock is set (set: any value
\* other than None); then the transport is not called and nothing changes;
\* with siblings non-empty and one of the three set, store() calls the
\* transport.
C1_StoreGuard ==
    [][last'.op = "store" =>
          LET o == last'.obj
              me == objs[o]
              unset == me.data = None /\ me.enc = None /\ me.vclock = None
              raised == last'.err = "UnresolvedConflictStore"
          IN  /\ raised <=> (Siblings(o) # <<>> /\ unset)
              /\ raised => UNCHANGED <<objs, sibs, lnks, idxs, metas, role>>
              /\ \A resp \in PutResponses :
                    /\ store(World, o, resp).err = "UnresolvedConflictStore"
                          => store(World, o, resp).calls = <<>>
                    /\ (Siblings(o) # <<>> /\ ~unset)
                          => store(World, o, resp).calls # <<>>]_vars

\* C2: in every state, setEncodedData(b) followed by getData gives what
\* decoding b gives (the value, or the decoder's failure), and setData(v)
\* followed by getEncodedData gives what encoding v gives, whatever the cell
\* held before.
C2_GetterReflectsSetter ==
    \A o \in App :
        /\ \A b \in EncInputs :
              LET g == _get_data(_set_encoded_data(World, o, b), o)
                  d == _deserialize(World, o, b)
              IN  g.err = d.err /\ g.ret = d.val
        /\ \A v \in DataInputs :
              LET g == _get_encoded_data(_set_data(World, o, v), o)
                  e == _serialize(World, o, v)
              IN  g.err = e.err /\ g.ret = e.val

\* A getData that directly followed setEncodedData on the record and decoded.
C2_Witness ==
    /\ last.op = "getData"
    /\ last.after = "setEncodedData"
    /\ last.err = "ok"
    /\ objs[last.obj].data \in DataInputs

\* C3: no record ever holds a decoded value and encoded bytes at once.
C3_MutualExclusion ==
    \A o \in App : ~(objs[o].data # None /\ objs[o].enc # None)

\* A getData that failed with MissingCodec: the bytes are still the only side.
C3_Witness ==
    /\ last.op = "getData"
    /\ last.err = "MissingCodec"
    /\ objs[last.obj].enc # None
    /\ objs[last.obj].data = None

\* C4: get_sibling(i) on an unresolved tag makes exactly one transport fetch,
\* for that tag, and when it returns it has stored the new record in
\* siblings[i]; get_sibling(i) on a resolved entry returns that record,
\* fetches nothing and changes nothing; so a second get_sibling(i) returns
\* the record of the first without a fetch.
C4_GetSiblingCaches ==
    \A o \in App, idx \in 1..MaxSibs, resp \in GetResponses :
        idx <= Len(Siblings(o)) =>
            \A entry \in {Siblings(o)[idx]}, g1 \in {get_sibling(World, o, idx, resp)} :
                /\ entry.rec = 0 =>
                      /\ Len(g1.calls) = 1
                      /\ g1.calls[1].op = "get"
                      /\ g1.calls[1].vtag = entry.vtag
                /\ entry.rec # 0 =>
                      /\ g1.err = "ok"
                      /\ g1.ret = entry.rec
                      /\ g1.calls = <<>>
                      /\ g1.w = World
                /\ g1.err = "ok" =>
                      \A w1 \in {Collect(g1.w)} :
                          /\ entry.rec = 0 =>
                                /\ g1.ret \notin App
                                /\ w1.role[g1.ret] = "app"
                                /\ w1.sibs[w1.objs[o].siblings][idx] = Rec(g1.ret)
                          /\ \A resp2 \in GetResponses :
                                \A g2 \in {get_sibling(w1, o, idx, resp2)} :
                                    /\ g2.err = "ok"
                                    /\ g2.ret = g1.ret
                                    /\ g2.calls = <<>>
                                    /\ g2.w = w1

\* A get_sibling that fetched a record and stored it in the list.
C4_Witness ==
    /\ last.op = "getSibling"
    /\ last.err = "ok"
    /\ last.resp = "record"
    /\ \E idx \in 1..MaxSibs, s \in App \ {last.obj} :
          /\ idx <= Len(Siblings(last.obj))
          /\ Siblings(last.obj)[idx] = Rec(s)
          /\ objs[s].exists

\* C5 as stated: whenever get_sibling(i) returns a record, that record holds
\* the very siblings list of the record it was asked of.
C5_ReturnedSiblingSharesList ==
    \A o \in App, idx \in 1..MaxSibs, resp \in GetResponses :
        idx <= Len(Siblings(o)) =>
            \A g \in {get_sibling(World, o, idx, resp)} :
                g.err = "ok" => g.w.objs[g.ret].siblings = g.w.objs[o].siblings

\* C5 amended: when get_sibling(i) resolves a tag, whatever the fetch
\* returned, the new record holds the very siblings list of its parent, and
\* resolving entry j through either of them shows in the other's siblings[j].
C5_ResolvedSiblingSharesList ==
    \A o \in App, idx \in 1..MaxSibs, resp \in GetResponses :
        (idx <= Len(Siblings(o)) /\ Siblings(o)[idx].rec = 0) =>
            \A g \in {get_sibling(World, o, idx, resp)} :
                g.err = "ok" =>
                    \A w1 \in {Collect(g.w)} :
                        /\ w1.objs[g.ret].siblings = w1.objs[o].siblings
                        /\ \A j \in 1..MaxSibs, resp2 \in SiblingResponses, x \in {o, g.ret} :
                              j <= Len(w1.sibs[w1.objs[o].siblings]) =>
                                  \A h \in {get_sibling(w1, x, j, resp2)} :
                                      h.err = "ok" =>
                                        /\ h.w.sibs[h.w.objs[o].siblings][j] = Rec(h.ret)
                                        /\ h.w.sibs[h.w.objs[g.ret].siblings][j] = Rec(h.ret)

\* A sibling fetched as a record that carried a siblings list of its own, and
\* now holds its parent's list.
C5_Witness ==
    /\ last.op = "getSibling"
    /\ last.err = "ok"
    /\ last.resp = "record"
    /\ \E s \in App \ {last.obj} :
          /\ objs[s].siblings = objs[last.obj].siblings
          /\ objs[s].content_type = MULTIPART
          /\ \E idx \in 1..MaxSibs :
                idx <= Len(Siblings(s)) /\ Siblings(s)[idx] = Rec(s)

\* C6: when the transport answers a store with "nothing to apply" (None or
\* the tuple ('', [])), store() raises nothing and changes nothing, with a
\* key and without.
C6_StoreIgnoresUnchanged ==
    [][(/\ last'.op = "store"
        /\ last'.resp \in {"None", "sentinel"}
        /\ last'.err # "UnresolvedConflictStore")
          => /\ last'.err = "ok"
             /\ UNCHANGED <<objs, sibs, lnks, idxs, metas, role>>]_vars

\* C7: reload() on a "not found" answer (None, ('', []), an empty list)
\* raises nothing and leaves the record cleared.
C7_ReloadNotFoundClears ==
    \A o \in App, resp \in GetResponses :
        resp.kind \in NotFound =>
            LET out == reload(World, o, 0, resp)
            IN  out.err = "ok" /\ Cleared(out.w, o)

\* A populated record that a reload found gone.
C7_Witness ==
    /\ last.op = "reload"
    /\ last.resp \in NotFound
    /\ last.err = "ok"
    /\ objs[last.obj].vclock # None
    /\ Cleared(World, last.obj)

\* C8: delete() calls the transport's delete exactly once, passing the record
\* as it was on entry, and when that call returns, whatever it returns, the
\* record is cleared.
C8_DeleteCallsThenClears ==
    \A o \in App, resp \in DeleteResponses :
        LET out == delete(World, o, resp)
        IN  /\ out.calls = <<Call(World, "delete", o, 0)>>
            /\ resp.kind # "raise" => out.err = "ok" /\ Cleared(out.w, o)

\* A populated record after a delete whose transport call returned a value.
C8_Witness ==
    /\ last.op = "delete"
    /\ last.resp = "sentinel"
    /\ last.err = "ok"
    /\ objs[last.obj].vclock # None
    /\ Cleared(World, last.obj)

\* C9: clear() leaves exists=false, data and encoded data unset, links and
\* siblings empty, and key, bucket, client, vclock, indexes, usermeta,
\* content type, charset and content encoding as they were.
C9_ClearFrame ==
    \A o \in App :
        LET c == clear(World, o)
            old == objs[o]
            new == c.objs[o]
        IN  /\ Cleared(c, o)
            /\ new.key = old.key
            /\ new.bucket = old.bucket
            /\ new.client = old.client
            /\ new.vclock = old.vclock
            /\ new.content_type = old.content_type
            /\ new.charset = old.charset
            /\ new.content_encoding = old.content_encoding
            /\ new.indexes = old.indexes
            /\ c.idxs[new.indexes] = idxs[old.indexes]
            /\ new.usermeta = old.usermeta
            /\ c.metas[new.usermeta] = metas[old.usermeta]

\* A record cleared after it was populated: vclock and indexes are kept.
C9_Witness ==
    /\ last.op = "clear"
    /\ Cleared(World, last.obj)
    /\ objs[last.obj].vclock # None
    /\ idxs[objs[last.obj].indexes] # {}
    /\ objs[last.obj].charset # None

\* C10: _populate(result) changes nothing when result is None or the record
\* itself; makes every field of the record the field of result when result is
\* another RiakObject; raises UnrecognizedPopulateResult and changes nothing
\* for any other result.
C10_PopulateOutcomes ==
    \A o \in App, resp \in GetResponses :
        resp.kind # "raise" =>
            LET m == Materialize(World, o, resp)
                p == _populate(m.w, o, m.val)
            IN  IF m.val = PyNone \/ m.val = PyObj(o)
                THEN p.err = "ok" /\ p.w = World
                ELSE IF m.val.type = "RiakObject"
                THEN /\ p.err = "ok"
                     /\ p.w.objs[o] = m.w.objs[m.val.id]
                     /\ p.w.objs[m.val.id] = m.w.objs[m.val.id]
                     /\ p.w.sibs[p.w.objs[o].siblings] = m.w.sibs[m.w.objs[m.val.id].siblings]
                     /\ p.w.lnks[p.w.objs[o].links] = m.w.lnks[m.w.objs[m.val.id].links]
                     /\ p.w.idxs[p.w.objs[o].indexes] = m.w.idxs[m.w.objs[m.val.id].indexes]
                     /\ p.w.metas[p.w.objs[o].usermeta] = m.w.metas[m.w.objs[m.val.id].usermeta]
                ELSE p.err = "UnrecognizedPopulateResult" /\ p.w = World

\* A keyless record that store() populated from the record the transport
\* returned: it has the server's key and vclock.
C10_Witness ==
    /\ last.op = "store"
    /\ last.resp = "record"
    /\ last.err = "ok"
    /\ objs[last.obj].key = AssignedKey
    /\ objs[last.obj].vclock # None
    /\ objs[last.obj].exists

Raise == [kind |-> "raise", tmpl |-> "-"]

\* C11: when the transport raises during store(), reload(), delete() or the
\* fetch inside get_sibling(i), the call ends with the transport's error and
\* nothing has changed: the record is not cleared and siblings[i] is still
\* the tag.
C11_TransportErrorsPassThrough ==
    \A o \in App :
        /\ \A s \in {store(World, o, Raise)} :
              s.calls # <<>> => s.err = "TransportError" /\ s.w = World
        /\ \A r \in {reload(World, o, 0, Raise)} :
              r.err = "TransportError" /\ r.w = World
        /\ \A d \in {delete(World, o, Raise)} :
              d.err = "TransportError" /\ d.w = World
        /\ \A idx \in 1..MaxSibs :
              (idx <= Len(Siblings(o)) /\ Siblings(o)[idx].rec = 0) =>
                  \A g \in {get_sibling(World, o, idx, Raise)} :
                      /\ g.err = "TransportError"
                      /\ Collect(g.w) = World

\* A get_sibling whose fetch raised, on a record that still holds the tag.
C11_Witness ==
    /\ last.op = "getSibling"
    /\ last.resp = "raise"
    /\ last.err = "TransportError"
    /\ objs[last.obj].exists
    /\ \E idx \in 1..MaxSibs :
          idx <= Len(Siblings(last.obj)) /\ Siblings(last.obj)[idx].rec = 0

Indexes(o) == idxs[objs[o].indexes]
Links(o) == lnks[objs[o].links]

\* C12: add_index, remove_index and add_link on a record leave the indexes
\* and the links of every other record as they were (no two records hold the
\* same indexes set or links list).
C12_MetadataOwned ==
    [][last'.op \in {"addIndex", "removeIndex", "addLink"} =>
          \A b \in App \ {last'.obj} :
              /\ idxs'[objs'[b].indexes] = Indexes(b)
              /\ lnks'[objs'[b].links] = Links(b)]_vars

\* The field names of the model that end in _bin or _int.
EndsInBinOrInt(field) == field \in {"f_bin", "g_int"}

\* C13: add_index(field, value) raises InvalidIndexSuffix and changes nothing
\* when field does not end in _bin or _int; otherwise it raises nothing, adds
\* the pair to the record's indexes and changes nothing else, and a second
\* add of the pair changes nothing; every pair of every record's indexes has
\* a field ending in _bin or _int.
C13_AddIndexSuffix ==
    \A o \in App :
        /\ \A x \in Indexes(o) : EndsInBinOrInt(x[1])
        /\ \A f \in AddFields, v \in IndexValues :
              \A a \in {add_index(World, o, f, v)} :
                  IF EndsInBinOrInt(f)
                  THEN /\ a.err = "ok"
                       /\ a.w = [World EXCEPT !.idxs[objs[o].indexes] =
                                                  Indexes(o) \cup {<<f, v>>}]
                       /\ add_index(a.w, o, f, v) = a
                  ELSE a.err = "InvalidIndexSuffix" /\ a.w = World

\* An add_index refused for its field, on a record that holds indexes.
C13_Witness ==
    /\ last.op = "addIndex"
    /\ last.err = "InvalidIndexSuffix"
    /\ Cardinality(Indexes(last.obj)) = 2

\* C14: remove_index(field, value) with a field and a value removes the pair
\* (field, value) when the record holds it, raises nothing and leaves every
\* other pair of the record's indexes in place.
C14_RemoveExactPair ==
    [][(/\ last'.op = "removeIndex"
        /\ last'.field # None
        /\ last'.value # None
        /\ <<last'.field, last'.value>> \in Indexes(last'.obj))
          => /\ last'.err = "ok"
             /\ idxs'[objs'[last'.obj].indexes] =
                    Indexes(last'.obj) \ {<<last'.field, last'.value>>}]_vars

\* C15: remove_index with a value and no field raises AmbiguousIndexRemoval
\* and leaves the record's indexes as they were.
C15_ValueWithoutField ==
    [][(/\ last'.op = "removeIndex"
        /\ last'.field = None
        /\ last'.value # None)
          => /\ last'.err = "AmbiguousIndexRemoval"
             /\ idxs'[objs'[last'.obj].indexes] = Indexes(last'.obj)]_vars

Triple(o) == <<objs[o].key, objs[o].bucket, objs[o].vclock>>

\* C16: two records are equal exactly when their (key, bucket, vclock) are
\* equal, and then their hashes are equal; giving one of two equal records
\* another vclock makes them unequal; a record never equals a value that is
\* not a record; != is the negation of ==.
C16_EqualIffSameTriple ==
    \A a \in App :
        /\ \A b \in App :
              /\ __eq__(World, a, PyObj(b)) <=> (Triple(a) = Triple(b))
              /\ __eq__(World, a, PyObj(b)) => __hash__(World, a) = __hash__(World, b)
              /\ (a # b /\ __eq__(World, a, PyObj(b))) =>
                    \A v \in VclockInputs \ {objs[a].vclock} :
                        /\ ~__eq__([World EXCEPT !.objs[a].vclock = v], a, PyObj(b))
                        /\ __ne__([World EXCEPT !.objs[a].vclock = v], a, PyObj(b))
        /\ \A other \in {PyNone, PySentinel, PyList(0)} : ~__eq__(World, a, other)
        /\ \A other \in {PyNone, PySentinel, PyList(0)} \cup {PyObj(b) : b \in App} :
              __ne__(World, a, other) <=> ~__eq__(World, a, other)

Held(o) == objs[o].data # None \/ objs[o].enc # None

\* C17: a getter never empties the value cell: after getData or
\* getEncodedData on a record that held a decoded value or encoded bytes, the
\* record holds one of them.
C17_GetterKeepsValue ==
    [][(last'.op \in {"getData", "getEncodedData"} /\ Held(last'.obj))
          => (objs'[last'.obj].data # None \/ objs'[last'.obj].enc # None)]_vars

\* A record as __init__ leaves it.
Unpopulated(w, o) ==
    /\ ~w.objs[o].exists
    /\ w.objs[o].vclock = None
    /\ w.sibs[w.objs[o].siblings] = <<>>
    /\ w.lnks[w.objs[o].links] = <<>>
    /\ w.idxs[w.objs[o].indexes] = {}

\* Record o has, in this step, turned exists true or got a vclock.
GainsExistsOrVclock(o) ==
    \/ objs'[o].exists /\ ~objs[o].exists
    \/ objs'[o].vclock # None /\ objs[o].vclock = None

\* Record o has, in this step, got a non-empty siblings list.
GainsSiblings(o) ==
    /\ sibs'[objs'[o].siblings] # <<>>
    /\ (role[o] = "free" \/ Siblings(o) = <<>>)

\* The step is a store, reload or get_sibling answered with a record.
PopulatingStep ==
    last'.op \in {"store", "reload", "getSibling"} /\ last'.resp = "record"

\* C18 as stated: a record is constructed with exists false, no vclock and
\* empty siblings, links and indexes, and exists turns true, vclock becomes
\* set and siblings becomes non-empty only in a store, reload or get_sibling
\* step whose transport result is a record.
C18_PopulatedOnlyByRecord ==
    [][/\ Unpopulated(NewRiakObject(World, NextObj(World), "app", TheClient,
                                    TheBucket, AssignedKey), NextObj(World))
       /\ \A o \in ObjIds :
             (role'[o] = "app" /\ (GainsExistsOrVclock(o) \/ GainsSiblings(o)))
                 => PopulatingStep]_vars

\* C18 amended: as stated for exists and vclock; siblings becomes non-empty
\* only in such a step or, for the record a get_sibling constructs and
\* returns, when that get_sibling gives it the siblings list of the record it
\* was asked of, whatever the fetch returned.
C18_PopulatedOnlyByRecordOrSibling ==
    [][/\ Unpopulated(NewRiakObject(World, NextObj(World), "app", TheClient,
                                    TheBucket, AssignedKey), NextObj(World))
       /\ \A o \in ObjIds :
             /\ (role'[o] = "app" /\ GainsExistsOrVclock(o)) => PopulatingStep
             /\ (role'[o] = "app" /\ GainsSiblings(o)) =>
                   \/ PopulatingStep
                   \/ /\ last'.op = "getSibling"
                      /\ last'.err = "ok"
                      /\ role[o] = "free"
                      /\ objs'[o].siblings = objs'[last'.obj].siblings]_vars

\* A get_sibling answered "not found": the record it returned does not exist,
\* has no vclock and holds the siblings of the record it was asked of.
C18_Witness ==
    /\ last.op = "getSibling"
    /\ last.resp = "None"
    /\ last.err = "ok"
    /\ \E s \in App \ {last.obj} :
          /\ ~objs[s].exists
          /\ objs[s].vclock = None
          /\ Siblings(s) # <<>>
          /\ objs[s].siblings = objs[last.obj].siblings

\* C19: get_sibling(i) makes at most one transport fetch, none for a resolved
\* entry and one for a tag: a get of that tag for a record with this
\* record's client, bucket and key; afterwards the siblings list has the
\* length it had and every entry but entry i is what it was.
C19_OneEntryAtATime ==
    \A o \in App, idx \in 1..MaxSibs, resp \in GetResponses :
        idx <= Len(Siblings(o)) =>
            \A entry \in {Siblings(o)[idx]}, g \in {get_sibling(World, o, idx, resp)} :
                /\ entry.rec # 0 => g.calls = <<>>
                /\ entry.rec = 0 =>
                      /\ Len(g.calls) = 1
                      /\ g.calls[1].op = "get"
                      /\ g.calls[1].vtag = entry.vtag
                      /\ g.calls[1].seen.key = objs[o].key
                      /\ g.calls[1].seen.bucket = objs[o].bucket
                      /\ g.calls[1].seen.client = objs[o].client
                /\ \A after \in {g.w.sibs[g.w.objs[o].siblings]} :
                      /\ Len(after) = Len(Siblings(o))
                      /\ \A j \in 1..Len(after) :
                            j # idx => after[j] = Siblings(o)[j]

\* A get_sibling that resolved one entry of a list whose other entry is
\* still a tag.
C19_Witness ==
    /\ last.op = "getSibling"
    /\ last.err = "ok"
    /\ \E i \in 1..MaxSibs, j \in 1..MaxSibs :
          /\ i <= Len(Siblings(last.obj))
          /\ j <= Len(Siblings(last.obj))
          /\ Siblings(last.obj)[i].rec # 0
          /\ Siblings(last.obj)[j].rec = 0

NoDecoder(o) == get_decoder(objs[o].bucket, objs[o].content_type) = None
NoEncoder(o) == get_encoder(objs[o].bucket, objs[o].content_type) = None

\* C20 as stated, for getEncodedData: with no registered encoder, on a
\* decoded value that is text it raises nothing and leaves the cell holding
\* bytes.
C20_TextAlwaysEncodes ==
    [][(/\ last'.op = "getEncodedData"
        /\ NoEncoder(last'.obj)
        /\ objs[last'.obj].enc = None
        /\ objs[last'.obj].data \in TextInputs)
          => /\ last'.err = "ok"
             /\ objs'[last'.obj].enc # None
             /\ objs'[last'.obj].data = None]_vars

\* C20 amended: with no registered decoder, getData on encoded bytes raises
\* MissingCodec and changes nothing, and getEncodedData then returns the
\* bytes; with no registered encoder, getEncodedData on a decoded value gives
\* the default (ASCII) encoding of ASCII text, raises the encoding's error
\* for text that is not ASCII, raises MissingCodec for a value that is not
\* text, and a call that raises changes nothing.
C20_NoCodecFallback ==
    \A o \in App :
        /\ NoDecoder(o) =>
              \A b \in EncInputs :
                  \A w1 \in {_set_encoded_data(World, o, b)} :
                      /\ _get_data(w1, o) =
                             [w |-> w1, err |-> "MissingCodec", ret |-> None]
                      /\ _get_encoded_data(w1, o) =
                             [w |-> w1, err |-> "ok", ret |-> b]
        /\ NoEncoder(o) =>
              \A v \in DataInputs \cup TextInputs :
                  \A w1 \in {_set_data(World, o, v)} :
                      \A e \in {_get_encoded_data(w1, o)} :
                          IF v = "str a"
                          THEN /\ e.err = "ok"
                               /\ e.ret = "b:a"
                               /\ e.w.objs[o].enc = "b:a"
                               /\ e.w.objs[o].data = None
                          ELSE IF v = NonAscii
                          THEN e.err = "UnicodeError" /\ e.w = w1
                          ELSE e.err = "MissingCodec" /\ e.w = w1

\* A getEncodedData that failed on text that is not ASCII, on a record with
\* no registered encoder: the text is still the decoded value.
C20_Witness ==
    /\ last.op = "getEncodedData"
    /\ last.err = "UnicodeError"
    /\ NoEncoder(last.obj)
    /\ objs[last.obj].data = NonAscii
    /\ objs[last.obj].enc = None

====
